---- MODULE Spec2Model ----
(***************************************************************************)
(* Model of it8951-video: the streaming player (src/main.rs), the batch    *)
(* player (src/bin/display.rs), the device command layer (src/api.rs) and  *)
(* the SCSI-over-USB transport (src/usb.rs).                               *)
(*                                                                         *)
(* Frames are identified by their index in the source (0, 1, 2, ...).      *)
(* A device command of the API is one step with two outcomes: it returns   *)
(* Ok and has its effect on the controller, or it returns a transport      *)
(* error and has none.  The transport below the API (the three phases of a *)
(* command, the stall recovery and the tag counter) is modelled on its own *)
(* under SpecUsb.                                                          *)
(***************************************************************************)
EXTENDS Integers, Naturals, Sequences, FiniteSets, TLC

----------------------------------------------------------------------------
(* Bounds of the model. *)

\* frames in the video file played by main.rs
MaxFrames == 3
\* largest value of --take tried
MaxTake == 2
\* largest value of --ghost tried
MaxGhost == 2
\* frames the decoder may hold back before it outputs one
MaxDelay == 1
\* packets of other streams (audio) in the video file
MaxOther == 1
\* frames in the frame set played by display.rs
MaxBatchFrames == 17
\* commands one transport session issues
MaxCommands == 2
\* stalls the device answers to the status reads of one command
MaxStalls == 2

----------------------------------------------------------------------------
(* Program constants. *)

\* display.rs:12
BUFFER_SIZE == 8
\* bit-depth / pitch mode register, main.rs:146
REG_MODE == 402657592
\* bitmap colour definition register, main.rs:155
REG_COLOR == 402657872
\* image pitch width register, main.rs:158
REG_PITCH == 402657868
\* 0xf0 | 0x00 << 8, main.rs:155
COLOR_VALUE == 240

Registers == {REG_MODE, REG_COLOR, REG_PITCH}

NoFrame == 0 - 1

VARIABLES
    prog,           \* "main" (src/main.rs) or "display" (src/bin/display.rs)
    opt,            \* command line: take, ghost, width, height, vcom (microvolts)
    src,            \* the input: number of frames, decoder delay, other packets;
                    \* display.rs: width, height of the frame set, misshapen frame
    system_info,    \* API.system_info: the snapshot cached by API::connect
    devInfo,        \* the system information the controller would report now
    mpc,            \* position of the main thread
    outcome,        \* "running", "ok" (exit status 0) or "error" (non-zero)
    selected,       \* branch of tokio::select! that completed (main.rs)
    reg,            \* local `reg`: value of REG_MODE read during setup
    regs,           \* controller registers
    regs0,          \* controller registers before the session
    controller,     \* how the controller fills its Status Wrappers
    devMem,         \* controller image buffers: slot -> frame stored there
    displayed,      \* frames shown on the panel, with their mode, in order
    devLog,         \* device commands issued so far: operation and issuer
    devFailed,      \* some device command returned an error
    vpc,            \* position of video_task (producer)
    frame_counter,  \* video_task: decoded frames seen so far
    packetsLeft,    \* video packets not yet returned by packet_iter
    otherLeft,      \* packets of other streams not yet returned
    decBuf,         \* frames sent to the decoder and not yet received
    cancelled,      \* video_task: local `cancelled`
    video_finished, \* the AtomicBool shared by both tasks
    packets_after_send, \* packets video_task took after shutdown_tx.send
    queue,          \* frames in the mpsc channel frame_tx -> frame_rx
    shutdownV,      \* a shutdown message waits in shutdown_rx
    shutdownP,      \* a shutdown message waits in shutdown_rx_panel
    ppc,            \* position of panel_task (consumer)
    frame_counter_panel, \* panel_task: local `frame_counter`
    frame,          \* panel_task: frame popped from the queue
    stopReason,     \* why panel_task left its loop
    frames_after_send,  \* frames panel_task popped after shutdown_tx.send
    running,        \* display.rs: AtomicBool cleared by the Ctrl-C handler
    frames_count,   \* display.rs: index of the frame the for loop is at
    buffer_index,   \* display.rs
    ghost_counter,  \* display.rs
    index,          \* display.rs: index of the inner display loop
    TAG,            \* usb.rs: the process-wide AtomicU32, as <<high, low>> 16-bit halves
    wraps,          \* how many times TAG has wrapped around
    tagLog,         \* tags handed out by TAG.fetch_add, in the order of the calls
    conn,           \* usb.rs: per session, the command in progress
    calc            \* a pure function under evaluation: its inputs, loop
                    \* variables and result

cfgVars == <<prog, opt, src, regs0, controller>>
devVars == <<regs, devMem, displayed, devLog, devFailed, system_info, devInfo>>
mainVars == <<mpc, outcome, selected, reg>>
videoVars == <<vpc, frame_counter, packetsLeft, otherLeft, decBuf, cancelled,
               video_finished, packets_after_send>>
chanVars == <<queue, shutdownV, shutdownP>>
panelVars == <<ppc, frame_counter_panel, frame, stopReason, frames_after_send>>
batchVars == <<running, frames_count, buffer_index, ghost_counter, index>>
usbVars == <<TAG, wraps, tagLog, conn>>
calcVars == <<calc>>

vars == <<cfgVars, devVars, mainVars, videoVars, chanVars, panelVars, batchVars,
          usbVars, calcVars>>

----------------------------------------------------------------------------
(* Arithmetic helpers. *)

Pow2(n) == 2 ^ n

\* v | 1 << b on unsigned integers
SetBit(v, b) == IF (v \div Pow2(b)) % 2 = 1 THEN v ELSE v + Pow2(b)

----------------------------------------------------------------------------
(* Device command layer (src/api.rs), as seen by the two players.          *)
(* `by` is the thread that issues the command, `ok` whether it returns Ok. *)

LoggedWith(op, by, arg) == Append(devLog, [op |-> op, by |-> by, arg |-> arg])

Logged(op, by) == LoggedWith(op, by, <<>>)

\* `as u16` of a non-negative float: saturating
F32AsU16(q) == IF q > 65535 THEN 65535 ELSE q

\* `as u16` of an integer: the low 16 bits
UsizeAsU16(n) == n % 65536

\* u16::to_be_bytes
to_be_bytes(v) == <<v \div 256, v % 256>>

Abs(v) == IF v < 0 THEN 0 - v ELSE v

\* byte i (counted from 0) of a command block
Byte(command, i) == command[i + 1]

\* the SystemInfo of a controller that has not been connected to
NoInfo == [width |-> 0, height |-> 0, mode |-> "none"]

\* API::connect: get-system-info is the first command sent to the device;
\* its answer becomes API.system_info
connect(by, ok) ==
    /\ devLog' = Logged("get_system_info", by)
    /\ devFailed' = (devFailed \/ ~ok)
    /\ system_info' = IF ok THEN devInfo ELSE system_info
    /\ UNCHANGED <<regs, devMem, displayed, devInfo>>

\* a set_vcom that sends the value in the low byte only
set_vcom_command_low_byte(vcom) ==
    LET converted == F32AsU16(Abs(vcom) \div 1000)
    IN  <<254, 0, 0, 0, 0, 0, 163, 0, converted % 256, 1, 0, 0, 0, 0, 0, 0>>

\* the command block of API::set_vcom; vcom is in microvolts, so that
\* vcom.abs() * 1000.0 is Abs(vcom) / 1000 and `as u16` drops the fraction
set_vcom_command(vcom) ==
    LET converted == F32AsU16(Abs(vcom) \div 1000)
        vcom_8 == to_be_bytes(converted)
    IN  <<254, 0, 0, 0, 0, 0, 163, vcom_8[1], vcom_8[2], 1, 0, 0, 0, 0, 0, 0>>

set_vcom(vcom, by, ok) ==
    /\ devLog' = LoggedWith("set_vcom", by, [command |-> set_vcom_command(vcom)])
    /\ devFailed' = (devFailed \/ ~ok)
    /\ UNCHANGED <<regs, devMem, displayed, system_info, devInfo>>

\* the value is returned to the caller by the action that uses this
get_memory_register_value(address, by, ok) ==
    /\ devLog' = Logged("get_reg", by)
    /\ devFailed' = (devFailed \/ ~ok)
    /\ UNCHANGED <<regs, devMem, displayed, system_info, devInfo>>

set_memory_register_value(address, data, by, ok) ==
    /\ devLog' = Logged("set_reg", by)
    /\ regs' = IF ok THEN [regs EXCEPT ![address] = data] ELSE regs
    /\ devFailed' = (devFailed \/ ~ok)
    /\ UNCHANGED <<devMem, displayed, system_info, devInfo>>

\* the image buffer at `slot` (image_buffer_base + slot * image_size)
\* `data` is the frame and `len` is data.len(); data_len_8 goes into bytes
\* 7..8 of the command block, write_command_raw puts data.len() into the
\* data_transfer_length of the Command Wrapper and sends `len` bytes
set_memory(slot, data, len, by, ok) ==
    /\ devLog' = LoggedWith("set_memory", by,
                            [data_len_8 |-> to_be_bytes(UsizeAsU16(len)),
                             data_transfer_length |-> len,
                             payload |-> len])
    /\ devMem' = IF ok THEN [devMem EXCEPT ![slot] = data] ELSE devMem
    /\ devFailed' = (devFailed \/ ~ok)
    /\ UNCHANGED <<regs, displayed, system_info, devInfo>>

\* (panel - size) / 2 on u32: when size is greater than panel the
\* subtraction overflows and, in a build without overflow checks, wraps
\* around 2^32
centred(panel, size) ==
    IF panel >= size
    THEN (panel - size) \div 2
    ELSE (2147483647 - ((size - panel + 1) \div 2)) + 1

\* one of the subtractions of display_image overflows: a build with
\* overflow checks panics there
SubOverflows == system_info.width < opt.width \/ system_info.height < opt.height

\* the DisplayArea sent by display_image; self.width and self.height are
\* the opt.width and opt.height given to API::connect
DisplayArea(mode) ==
    [display_mode |-> mode,
     x |-> centred(system_info.width, opt.width),
     y |-> centred(system_info.height, opt.height),
     width |-> opt.width,
     height |-> opt.height,
     wait_ready |-> 1]

\* the DisplayArea sent by clear_display
ClearArea ==
    [address |-> 0, display_mode |-> "INIT", x |-> 0, y |-> 0,
     width |-> system_info.width, height |-> system_info.height,
     wait_ready |-> 1]

\* a display_image that reads the system information again from the device
display_image_refreshes_info(slot, mode, by, ok) ==
    /\ devLog' = LoggedWith("display_image", by, DisplayArea(mode))
    /\ displayed' = IF ok
                    THEN Append(displayed, [frame |-> devMem[slot], mode |-> mode])
                    ELSE displayed
    /\ devInfo' = IF ok THEN [devInfo EXCEPT !.mode = mode] ELSE devInfo
    /\ system_info' = devInfo'
    /\ devFailed' = (devFailed \/ ~ok)
    /\ UNCHANGED <<regs, devMem>>

\* the controller's current display mode follows the command; the cached
\* API.system_info is only read (get_system_info, api.rs:402)
display_image(slot, mode, by, ok) ==
    /\ devLog' = LoggedWith("display_image", by, DisplayArea(mode))
    /\ displayed' = IF ok
                    THEN Append(displayed, [frame |-> devMem[slot], mode |-> mode])
                    ELSE displayed
    /\ devInfo' = IF ok THEN [devInfo EXCEPT !.mode = mode] ELSE devInfo
    /\ devFailed' = (devFailed \/ ~ok)
    /\ UNCHANGED <<regs, devMem, system_info>>

clear_display(by, ok) ==
    /\ devLog' = LoggedWith("clear_display", by, ClearArea)
    /\ devInfo' = IF ok THEN [devInfo EXCEPT !.mode = "INIT"] ELSE devInfo
    /\ devFailed' = (devFailed \/ ~ok)
    /\ UNCHANGED <<regs, devMem, displayed, system_info>>

----------------------------------------------------------------------------
(* Frame sizes.                                                            *)

\* let image_size = (opt.width * opt.height) / 8; the length of data_1bpp
image_size == (opt.width * opt.height) \div 8

\* convert.rs packs the pixels of a picture in chunks of 8, one byte for
\* each chunk, the last chunk being shorter when the pixels run out
extract_video_frames(width, height) == (width * height + 7) \div 8

\* the length of frame i of the frame set display.rs reads: the set was
\* written by convert.rs for src.width x src.height, and RawFrames::new
\* and bincode::deserialize accept a frame of any other length at src.bad
FrameLen(i) ==
    IF i = src.bad
    THEN extract_video_frames(src.width, src.height) + 1
    ELSE extract_video_frames(src.width, src.height)

----------------------------------------------------------------------------
(* Initial states: the command line, the input and the controller.         *)

\* register contents found at connect time
RegPresets ==
    { [a \in Registers |-> 0],
      [a \in Registers |-> IF a = REG_MODE THEN Pow2(17) + 1
                           ELSE IF a = REG_COLOR THEN COLOR_VALUE ELSE 58] }

\* --vcom in microvolts: the default -1.58, the limits 0.0 and -5.0,
\* a positive value, a value with a fraction of a millivolt
Vcoms == {0 - 1580000, 0, 0 - 5000000, 1000000, 0 - 4999900}

\* --width and --height: the defaults and a small picture
Dims == {<<1856, 1392>>, <<64, 8>>, <<1920, 1440>>}

\* every take and ghost with the default picture and VCOM, and every VCOM
\* and picture size with take = ghost = 1
Opts ==
    [take : 0..MaxTake, ghost : 0..MaxGhost, width : {1856}, height : {1392},
     vcom : {0 - 1580000}]
    \cup { [take |-> 1, ghost |-> 1, width |-> 1856, height |-> 1392, vcom |-> v] :
             v \in Vcoms }
    \cup { [take |-> 1, ghost |-> 1, width |-> d[1], height |-> d[2],
            vcom |-> 0 - 1580000] : d \in Dims }

\* positions at which a frame set may hold a frame of another length
BadFrames == {NoFrame, 0, 1}

\* display.rs reads a frame set: its width and height, its number of frames
\* and the position of a frame whose length differs from the others
Inputs(p) ==
    IF p = "main"
    THEN [nframes : 0..MaxFrames, delay : 0..MaxDelay, other : 0..MaxOther,
          width : {0}, height : {0}, bad : {NoFrame}]
    ELSE { i \in [nframes : 0..MaxBatchFrames, delay : {0}, other : {0},
                  width : {1856}, height : {1392}, bad : BadFrames] :
           i.bad < i.nframes }
           \cup [nframes : {1, 2}, delay : {0}, other : {0},
                 width : {64}, height : {8}, bad : {NoFrame}]
           \cup [nframes : {BUFFER_SIZE}, delay : {0}, other : {0},
                 width : {1920}, height : {1440}, bad : {NoFrame}]

\* what the controller reports before the session: the panel and the mode
\* of its last update
PanelInfo == [width |-> 1872, height |-> 1404, mode |-> "GC16"]

\* no pure function is under evaluation
NoCalc == [fn |-> "none"]

\* the state of both players before main() runs
InitRun ==
    /\ system_info = NoInfo
    /\ devInfo = PanelInfo
    /\ regs = regs0
    /\ devMem = [s \in 0..(BUFFER_SIZE - 1) |-> NoFrame]
    /\ displayed = <<>>
    /\ devLog = <<>>
    /\ devFailed = FALSE
    /\ mpc = "args"
    /\ outcome = "running"
    /\ selected = "none"
    /\ reg = 0
    /\ vpc = "idle"
    /\ frame_counter = 0
    /\ packetsLeft = IF prog = "main" THEN src.nframes ELSE 0
    /\ otherLeft = src.other
    /\ decBuf = 0
    /\ cancelled = FALSE
    /\ video_finished = FALSE
    /\ packets_after_send = 0
    /\ queue = <<>>
    /\ shutdownV = FALSE
    /\ shutdownP = FALSE
    /\ ppc = "idle"
    /\ frame_counter_panel = 0
    /\ frame = NoFrame
    /\ stopReason = "none"
    /\ frames_after_send = 0
    /\ running = TRUE
    /\ frames_count = 0
    /\ buffer_index = 0
    /\ ghost_counter = 0
    /\ index = 0

\* static TAG: AtomicU32 = AtomicU32::new(1)
TAG_INIT == <<0, 1>>

\* no Status Wrapper has been received
NoCsw == <<>>

IdleConn ==
    [pc |-> "idle", kind |-> "none", args |-> <<0, 0>>, bulk |-> 0, cbw |-> <<>>,
     trace |-> <<>>, result |-> "none", csw |-> NoCsw, issued |-> 0]

Sessions == {"s1", "s2"}

Init ==
    /\ prog \in {"main", "display"}
    /\ opt \in Opts
    /\ src \in Inputs(prog)
    /\ regs0 \in RegPresets
    /\ InitRun
    /\ TAG = TAG_INIT
    /\ wraps = 0
    /\ tagLog = <<>>
    /\ conn = [s \in Sessions |-> IdleConn]
    /\ controller = "conforming"
    /\ calc = NoCalc

----------------------------------------------------------------------------
(* src/main.rs: the main thread.                                           *)

\* the main thread ends: `?` on an Err or a failed assert!
MainFails ==
    /\ mpc' = "done"
    /\ outcome' = "error"

MainRest == <<cfgVars, videoVars, chanVars, panelVars, batchVars, usbVars, calcVars>>

Main_args ==
    /\ prog = "main" /\ mpc = "args"
    /\ IF /\ opt.take > 0 /\ opt.take < 25
          /\ opt.vcom < 0 /\ opt.vcom >= 0 - 5000000
          /\ opt.ghost > 0
       THEN mpc' = "connect" /\ UNCHANGED outcome
       ELSE MainFails
    /\ UNCHANGED <<selected, reg, devVars, MainRest>>

Main_connect ==
    /\ prog = "main" /\ mpc = "connect"
    /\ \E ok \in BOOLEAN :
          /\ connect("main", ok)
          /\ IF ok THEN mpc' = "fit" /\ UNCHANGED outcome ELSE MainFails
    /\ UNCHANGED <<selected, reg, MainRest>>

Main_fit ==
    /\ prog = "main" /\ mpc = "fit"
    /\ IF system_info.width >= opt.width /\ system_info.height >= opt.height
       THEN mpc' = "set_vcom" /\ UNCHANGED outcome
       ELSE MainFails
    /\ UNCHANGED <<selected, reg, devVars, MainRest>>

Main_set_vcom ==
    /\ prog = "main" /\ mpc = "set_vcom"
    /\ \E ok \in BOOLEAN :
          /\ set_vcom(opt.vcom, "main", ok)
          /\ IF ok THEN mpc' = "get_reg" /\ UNCHANGED outcome ELSE MainFails
    /\ UNCHANGED <<selected, reg, MainRest>>

Main_get_reg ==
    /\ prog = "main" /\ mpc = "get_reg"
    /\ \E ok \in BOOLEAN :
          /\ get_memory_register_value(REG_MODE, "main", ok)
          /\ IF ok
             THEN mpc' = "set_reg_mode" /\ reg' = regs[REG_MODE] /\ UNCHANGED outcome
             ELSE MainFails /\ UNCHANGED reg
    /\ UNCHANGED <<selected, MainRest>>

Main_set_reg_mode ==
    /\ prog = "main" /\ mpc = "set_reg_mode"
    /\ \E ok \in BOOLEAN :
          /\ set_memory_register_value(REG_MODE, SetBit(SetBit(reg, 18), 17), "main", ok)
          /\ IF ok THEN mpc' = "set_reg_color" /\ UNCHANGED outcome ELSE MainFails
    /\ UNCHANGED <<selected, reg, MainRest>>

Main_set_reg_color ==
    /\ prog = "main" /\ mpc = "set_reg_color"
    /\ \E ok \in BOOLEAN :
          /\ set_memory_register_value(REG_COLOR, COLOR_VALUE, "main", ok)
          /\ IF ok THEN mpc' = "set_reg_pitch" /\ UNCHANGED outcome ELSE MainFails
    /\ UNCHANGED <<selected, reg, MainRest>>

Main_set_reg_pitch ==
    /\ prog = "main" /\ mpc = "set_reg_pitch"
    /\ \E ok \in BOOLEAN :
          /\ set_memory_register_value(REG_PITCH, (opt.width \div 8) \div 4, "main", ok)
          /\ IF ok THEN mpc' = "spawn" /\ UNCHANGED outcome ELSE MainFails
    /\ UNCHANGED <<selected, reg, MainRest>>

\* task::spawn_blocking of video_task and of panel_task
Main_spawn ==
    /\ prog = "main" /\ mpc = "spawn"
    /\ mpc' = "select"
    /\ vpc' = "check"
    /\ ppc' = "poll"
    /\ UNCHANGED <<outcome, selected, reg, devVars, cfgVars, chanVars, batchVars,
                   usbVars, calcVars, frame_counter, packetsLeft, otherLeft, decBuf, cancelled,
                   video_finished, packets_after_send, frame_counter_panel, frame,
                   stopReason, frames_after_send>>

VideoEnded == vpc \in {"done", "panicked"}
PanelEnded == ppc \in {"done", "panicked"}

\* tokio::select!: a task's join handle completes (normally or by a panic),
\* or the operator presses Ctrl-C
Main_select ==
    /\ prog = "main" /\ mpc = "select"
    /\ \E branch \in {"video_task", "panel_task", "ctrl_c"} :
          /\ branch = "video_task" => VideoEnded
          /\ branch = "panel_task" => PanelEnded
          /\ selected' = branch
    /\ mpc' = "send"
    /\ UNCHANGED <<outcome, reg, devVars, MainRest>>

\* a main thread that clears the panel itself when it shuts down
Main_send_clears_display ==
    /\ prog = "main" /\ mpc = "send"
    /\ shutdownV' = TRUE
    /\ shutdownP' = TRUE
    /\ mpc' = "done"
    /\ outcome' = "ok"
    /\ clear_display("main", TRUE)
    /\ UNCHANGED <<selected, reg, cfgVars, videoVars, panelVars,
                   batchVars, usbVars, calcVars, queue>>

\* shutdown_tx.send(true) has been executed
ShutdownSent == prog = "main" /\ mpc = "done" /\ outcome = "ok"

\* shutdown_tx.send(true), then Ok(())
Main_send ==
    /\ prog = "main" /\ mpc = "send"
    /\ shutdownV' = TRUE
    /\ shutdownP' = TRUE
    /\ mpc' = "done"
    /\ outcome' = "ok"
    /\ UNCHANGED <<selected, reg, devVars, cfgVars, videoVars, panelVars,
                   batchVars, usbVars, calcVars, queue>>

----------------------------------------------------------------------------
(* src/main.rs: video_task, the producer.                                  *)

VideoRest == <<cfgVars, devVars, mainVars, panelVars, batchVars, usbVars, calcVars>>

\* frame_rx is owned by the closure of panel_task and is dropped with it
ReceiverOpen == ~PanelEnded

\* a producer that never sees the shutdown message
TryRecvShutdownV_never == FALSE

\* shutdown_rx.try_recv() returns Ok(true) and consumes the message
TryRecvShutdownV == shutdownV

\* decoder.receive_frame(): the decoder holds back src.delay frames until
\* send_eof, after which it returns every frame it still has
ReceiveFrameOk(eof) == decBuf > (IF eof THEN 0 ELSE src.delay)

\* a producer that forgets to skip frames
Taken_every_frame(counter) == TRUE

\* only take every nth frame from video
Taken(counter) == counter % opt.take = 0

\* one iteration of the while loop of receive_and_process_decoded_frames;
\* when receive_frame fails the closure returns and video_task goes to `after`
receive_and_process_decoded_frames(eof, after) ==
    IF ReceiveFrameOk(eof)
    THEN /\ decBuf' = decBuf - 1
         /\ IF Taken(frame_counter)
            THEN IF ReceiverOpen
                 THEN /\ queue' = Append(queue, frame_counter)
                      /\ frame_counter' = frame_counter + 1
                      /\ UNCHANGED vpc
                 ELSE \* frame_tx.send(..).unwrap() panics
                      /\ vpc' = "panicked"
                      /\ UNCHANGED <<queue, frame_counter>>
            ELSE /\ frame_counter' = frame_counter + 1
                 /\ UNCHANGED <<queue, vpc>>
    ELSE /\ vpc' = after
         /\ UNCHANGED <<decBuf, queue, frame_counter>>

Video_check ==
    /\ vpc = "check"
    /\ IF TryRecvShutdownV
       THEN /\ shutdownV' = FALSE
            /\ cancelled' = TRUE
            /\ vpc' = "send_eof"
       ELSE /\ vpc' = "next"
            /\ UNCHANGED <<shutdownV, cancelled>>
    /\ UNCHANGED <<frame_counter, packetsLeft, otherLeft, decBuf, video_finished,
                   queue, shutdownP, packets_after_send, VideoRest>>

\* packet_iter.next(): a packet of the video stream (decoder.send_packet),
\* a packet of another stream, or None
Video_next ==
    /\ vpc = "next"
    /\ \/ /\ packetsLeft > 0
          /\ packetsLeft' = packetsLeft - 1
          /\ decBuf' = decBuf + 1
          /\ vpc' = "receive"
          /\ packets_after_send' = packets_after_send + (IF ShutdownSent THEN 1 ELSE 0)
          /\ UNCHANGED otherLeft
       \/ /\ otherLeft > 0
          /\ otherLeft' = otherLeft - 1
          /\ vpc' = "check"
          /\ packets_after_send' = packets_after_send + (IF ShutdownSent THEN 1 ELSE 0)
          /\ UNCHANGED <<packetsLeft, decBuf>>
       \/ /\ packetsLeft = 0 /\ otherLeft = 0
          /\ vpc' = "send_eof"
          /\ UNCHANGED <<packetsLeft, otherLeft, decBuf, packets_after_send>>
    /\ UNCHANGED <<frame_counter, cancelled, video_finished, chanVars, VideoRest>>

Video_receive ==
    /\ vpc = "receive"
    /\ receive_and_process_decoded_frames(FALSE, "check")
    /\ UNCHANGED <<packetsLeft, otherLeft, cancelled, video_finished,
                   shutdownV, shutdownP, packets_after_send, VideoRest>>

\* a producer that flushes the decoder and reports the end of the video
\* after a cancellation too
Video_send_eof_always_flushes ==
    /\ vpc = "send_eof"
    /\ vpc' = "flush"
    /\ UNCHANGED <<frame_counter, packetsLeft, otherLeft, decBuf, cancelled,
                   video_finished, chanVars, packets_after_send, VideoRest>>

\* decoder.send_eof(), then `if !cancelled`
Video_send_eof ==
    /\ vpc = "send_eof"
    /\ vpc' = IF cancelled THEN "done" ELSE "flush"
    /\ UNCHANGED <<frame_counter, packetsLeft, otherLeft, decBuf, cancelled,
                   video_finished, chanVars, packets_after_send, VideoRest>>

Video_flush ==
    /\ vpc = "flush"
    /\ receive_and_process_decoded_frames(TRUE, "store")
    /\ UNCHANGED <<packetsLeft, otherLeft, cancelled, video_finished,
                   shutdownV, shutdownP, packets_after_send, VideoRest>>

\* a producer that enters its final loop without reporting the end of the video
Video_store_skips_flag ==
    /\ vpc = "store"
    /\ vpc' = "spin"
    /\ UNCHANGED <<frame_counter, packetsLeft, otherLeft, decBuf, cancelled,
                   video_finished, chanVars, packets_after_send, VideoRest>>

\* video_finished_tx.store(true)
Video_store ==
    /\ vpc = "store"
    /\ video_finished' = TRUE
    /\ vpc' = "spin"
    /\ UNCHANGED <<frame_counter, packetsLeft, otherLeft, decBuf, cancelled,
                   chanVars, packets_after_send, VideoRest>>

\* the final loop: leaves when try_recv returns Ok(true)
Video_spin ==
    /\ vpc = "spin"
    /\ TryRecvShutdownV
    /\ shutdownV' = FALSE
    /\ vpc' = "done"
    /\ UNCHANGED <<frame_counter, packetsLeft, otherLeft, decBuf, cancelled,
                   video_finished, queue, shutdownP, packets_after_send, VideoRest>>

----------------------------------------------------------------------------
(* src/main.rs: panel_task, the consumer.                                  *)

PanelRest == <<cfgVars, mainVars, videoVars, batchVars, usbVars, calcVars>>

\* a consumer whose ghost period is one frame too long
PanelMode_period_plus_one(counter) ==
    IF counter % (opt.ghost + 1) = 0 THEN "GL16" ELSE "A2"

\* the display mode of the frame with this value of frame_counter
PanelMode(counter) == IF counter % opt.ghost = 0 THEN "GL16" ELSE "A2"

\* a consumer that looks for the shutdown message only when no frame waits
TryRecvShutdownP_when_drained == shutdownP /\ queue = <<>>

\* shutdown_rx_panel.try_recv() returns Ok(true) and consumes the message
TryRecvShutdownP == shutdownP

Panel_poll ==
    /\ ppc = "poll"
    /\ IF TryRecvShutdownP
       THEN /\ shutdownP' = FALSE
            /\ ppc' = "clear"
            /\ stopReason' = "shutdown"
       ELSE /\ ppc' = "try_recv"
            /\ UNCHANGED <<shutdownP, stopReason>>
    /\ UNCHANGED <<frame_counter_panel, frame, queue, shutdownV, devVars, frames_after_send, PanelRest>>

\* frame_rx.try_recv()
Panel_try_recv ==
    /\ ppc = "try_recv"
    /\ IF queue /= <<>>
       THEN /\ frame' = Head(queue)
            /\ queue' = Tail(queue)
            /\ ppc' = "set_memory"
            /\ frames_after_send' = frames_after_send + (IF ShutdownSent THEN 1 ELSE 0)
       ELSE /\ ppc' = "load_finished"
            /\ UNCHANGED <<frame, queue, frames_after_send>>
    /\ UNCHANGED <<frame_counter_panel, stopReason, shutdownV, shutdownP, devVars,
                   PanelRest>>

Panel_set_memory ==
    /\ ppc = "set_memory"
    /\ \E ok \in BOOLEAN :
          /\ set_memory(0, frame, image_size, "panel", ok)
          /\ ppc' = IF ok THEN "display_image" ELSE "panicked"
    /\ UNCHANGED <<frame_counter_panel, frame, stopReason, chanVars, frames_after_send, PanelRest>>

\* main() has checked that the picture fits the panel (main.rs:139-140), so
\* the subtractions of display_image cannot overflow here
Panel_display_image ==
    /\ ppc = "display_image"
    /\ \E ok \in BOOLEAN :
          /\ display_image(0, PanelMode(frame_counter_panel), "panel", ok)
          /\ IF ok
             THEN /\ frame_counter_panel' = frame_counter_panel + 1
                  /\ ppc' = "poll"
             ELSE /\ ppc' = "panicked"
                  /\ UNCHANGED frame_counter_panel
    /\ UNCHANGED <<frame, stopReason, chanVars, frames_after_send, PanelRest>>

\* video_finished.load()
Panel_load_finished ==
    /\ ppc = "load_finished"
    /\ IF video_finished
       THEN /\ ppc' = "clear"
            /\ stopReason' = "finished"
       ELSE /\ ppc' = "poll"
            /\ UNCHANGED stopReason
    /\ UNCHANGED <<frame_counter_panel, frame, chanVars, devVars, frames_after_send, PanelRest>>

\* a consumer that goes back to its loop after it cleared the panel
Panel_clear_resumes ==
    /\ ppc = "clear"
    /\ \E ok \in BOOLEAN :
          /\ clear_display("panel", ok)
          /\ ppc' = IF ok THEN "poll" ELSE "panicked"
    /\ UNCHANGED <<frame_counter_panel, frame, stopReason, chanVars, frames_after_send, PanelRest>>

Panel_clear ==
    /\ ppc = "clear"
    /\ \E ok \in BOOLEAN :
          /\ clear_display("panel", ok)
          /\ ppc' = IF ok THEN "done" ELSE "panicked"
    /\ UNCHANGED <<frame_counter_panel, frame, stopReason, chanVars, frames_after_send, PanelRest>>

----------------------------------------------------------------------------
(* src/bin/display.rs: the batch player, one thread and a Ctrl-C handler.  *)

BatchRest == <<cfgVars, videoVars, chanVars, panelVars, usbVars, calcVars>>

\* the handler is installed, the frame set is read and deserialized
Display_args ==
    /\ prog = "display" /\ mpc = "args"
    /\ mpc' = "connect"
    /\ UNCHANGED <<outcome, selected, reg, devVars, batchVars, BatchRest>>

\* the handler set by ctrlc::set_handler
Display_ctrlc ==
    /\ prog = "display" /\ mpc \notin {"args", "done"}
    /\ running
    /\ running' = FALSE
    /\ UNCHANGED <<mainVars, devVars, frames_count, buffer_index, ghost_counter,
                   index, BatchRest>>

Display_connect ==
    /\ prog = "display" /\ mpc = "connect"
    /\ \E ok \in BOOLEAN :
          /\ connect("main", ok)
          /\ IF ok THEN mpc' = "frames" /\ UNCHANGED outcome ELSE MainFails
    /\ UNCHANGED <<selected, reg, batchVars, BatchRest>>

\* a shape check that looks at every frame of the set
FramesFit_every_frame ==
    /\ src.width = opt.width
    /\ src.height = opt.height
    /\ src.nframes > 0
    /\ \A i \in 0..(src.nframes - 1) : FrameLen(i) = image_size

\* assert_eq!(frames.width(), opt.width), assert_eq!(frames.height(),
\* opt.height), frames.get(0).expect("No data given in video file") and
\* the comparison of the length of that frame with image_size
FramesFit ==
    /\ src.width = opt.width
    /\ src.height = opt.height
    /\ src.nframes > 0
    /\ FrameLen(0) = image_size

Display_frames ==
    /\ prog = "display" /\ mpc = "frames"
    /\ IF FramesFit
       THEN mpc' = "set_vcom" /\ UNCHANGED outcome
       ELSE MainFails
    /\ UNCHANGED <<selected, reg, devVars, batchVars, BatchRest>>

\* assert!(opt.vcom > -5.0 && opt.vcom < 0.0), then api.set_vcom(opt.vcom)?
Display_set_vcom ==
    /\ prog = "display" /\ mpc = "set_vcom"
    /\ IF opt.vcom > 0 - 5000000 /\ opt.vcom < 0
       THEN \E ok \in BOOLEAN :
               /\ set_vcom(opt.vcom, "main", ok)
               /\ IF ok THEN mpc' = "get_reg" /\ UNCHANGED outcome ELSE MainFails
       ELSE MainFails /\ UNCHANGED devVars
    /\ UNCHANGED <<selected, reg, batchVars, BatchRest>>

Display_get_reg ==
    /\ prog = "display" /\ mpc = "get_reg"
    /\ \E ok \in BOOLEAN :
          /\ get_memory_register_value(REG_MODE, "main", ok)
          /\ IF ok
             THEN mpc' = "set_reg_mode" /\ reg' = regs[REG_MODE] /\ UNCHANGED outcome
             ELSE MainFails /\ UNCHANGED reg
    /\ UNCHANGED <<selected, batchVars, BatchRest>>

Display_set_reg_mode ==
    /\ prog = "display" /\ mpc = "set_reg_mode"
    /\ \E ok \in BOOLEAN :
          /\ set_memory_register_value(REG_MODE, SetBit(SetBit(reg, 18), 17), "main", ok)
          /\ IF ok THEN mpc' = "set_reg_color" /\ UNCHANGED outcome ELSE MainFails
    /\ UNCHANGED <<selected, reg, batchVars, BatchRest>>

Display_set_reg_color ==
    /\ prog = "display" /\ mpc = "set_reg_color"
    /\ \E ok \in BOOLEAN :
          /\ set_memory_register_value(REG_COLOR, COLOR_VALUE, "main", ok)
          /\ IF ok THEN mpc' = "set_reg_pitch" /\ UNCHANGED outcome ELSE MainFails
    /\ UNCHANGED <<selected, reg, batchVars, BatchRest>>

Display_set_reg_pitch ==
    /\ prog = "display" /\ mpc = "set_reg_pitch"
    /\ \E ok \in BOOLEAN :
          /\ set_memory_register_value(REG_PITCH, (opt.width \div 8) \div 4, "main", ok)
          /\ IF ok THEN mpc' = "take" /\ UNCHANGED outcome ELSE MainFails
    /\ UNCHANGED <<selected, reg, batchVars, BatchRest>>

\* assert!(opt.take > 0)
Display_take ==
    /\ prog = "display" /\ mpc = "take"
    /\ IF opt.take > 0
       THEN mpc' = "for" /\ UNCHANGED outcome
       ELSE MainFails
    /\ UNCHANGED <<selected, reg, devVars, batchVars, BatchRest>>

\* head of the for loop: the next frame, the running flag, the skip
Display_for ==
    /\ prog = "display" /\ mpc = "for"
    /\ IF frames_count >= src.nframes \/ ~running
       THEN /\ mpc' = "restore"
            /\ UNCHANGED frames_count
       ELSE IF frames_count % opt.take /= 0
            THEN /\ frames_count' = frames_count + 1
                 /\ UNCHANGED mpc
            ELSE /\ mpc' = "set_memory"
                 /\ UNCHANGED frames_count
    /\ UNCHANGED <<outcome, selected, reg, devVars, running, buffer_index,
                   ghost_counter, index, BatchRest>>

\* api.set_memory into the next buffer, then the check whether the buffers
\* are full
Display_set_memory ==
    /\ prog = "display" /\ mpc = "set_memory"
    /\ \E ok \in BOOLEAN :
          /\ set_memory(buffer_index, frames_count, FrameLen(frames_count), "main", ok)
          /\ IF ~ok
             THEN MainFails /\ UNCHANGED <<frames_count, buffer_index, index>>
             ELSE IF buffer_index < BUFFER_SIZE - 1
                  THEN /\ buffer_index' = buffer_index + 1
                       /\ frames_count' = frames_count + 1
                       /\ mpc' = "for"
                       /\ UNCHANGED <<outcome, index>>
                  ELSE /\ buffer_index' = 0
                       /\ index' = 0
                       /\ mpc' = "display_image"
                       /\ UNCHANGED <<outcome, frames_count>>
    /\ UNCHANGED <<selected, reg, running, ghost_counter, BatchRest>>

\* the display mode chosen for this value of ghost_counter
BatchMode(counter) == IF counter = 0 THEN "GL16" ELSE "A2"

\* ghost_counter += 1; if ghost_counter > opt.ghost { ghost_counter = 0 }
NextGhostCounter(counter) == IF counter + 1 > opt.ghost THEN 0 ELSE counter + 1

\* one iteration of `for index in 0..BUFFER_SIZE`
Display_display_image ==
    /\ prog = "display" /\ mpc = "display_image"
    /\ \/ \E ok \in BOOLEAN :
             /\ display_image(index, BatchMode(ghost_counter), "main", ok)
             /\ IF ~ok
                THEN MainFails /\ UNCHANGED <<frames_count, ghost_counter, index>>
                ELSE /\ ghost_counter' = NextGhostCounter(ghost_counter)
                     /\ index' = index + 1
                     /\ IF index + 1 < BUFFER_SIZE
                        THEN UNCHANGED <<mpc, frames_count>>
                        ELSE mpc' = "for" /\ frames_count' = frames_count + 1
                     /\ UNCHANGED outcome
       \/ \* `attempt to subtract with overflow` in display_image
          /\ SubOverflows
          /\ MainFails
          /\ UNCHANGED <<devVars, frames_count, ghost_counter, index>>
    /\ UNCHANGED <<selected, reg, running, buffer_index, BatchRest>>

\* reset register to original value
Display_restore ==
    /\ prog = "display" /\ mpc = "restore"
    /\ \E ok \in BOOLEAN :
          /\ set_memory_register_value(REG_MODE, reg, "main", ok)
          /\ IF ok THEN mpc' = "clear" /\ UNCHANGED outcome ELSE MainFails
    /\ UNCHANGED <<selected, reg, batchVars, BatchRest>>

Display_clear ==
    /\ prog = "display" /\ mpc = "clear"
    /\ \E ok \in BOOLEAN :
          /\ clear_display("main", ok)
          /\ mpc' = "done"
          /\ outcome' = IF ok THEN "ok" ELSE "error"
    /\ UNCHANGED <<selected, reg, batchVars, BatchRest>>

----------------------------------------------------------------------------
(* The two players. *)

MainThread ==
    \/ Main_args \/ Main_connect \/ Main_fit \/ Main_set_vcom \/ Main_get_reg
    \/ Main_set_reg_mode \/ Main_set_reg_color \/ Main_set_reg_pitch
    \/ Main_spawn \/ Main_select \/ Main_send

video_task ==
    \/ Video_check \/ Video_next \/ Video_receive \/ Video_send_eof
    \/ Video_flush \/ Video_store \/ Video_spin

panel_task ==
    \/ Panel_poll \/ Panel_try_recv \/ Panel_set_memory \/ Panel_display_image
    \/ Panel_load_finished \/ Panel_clear

BatchPlayer ==
    \/ Display_args \/ Display_ctrlc \/ Display_connect \/ Display_frames
    \/ Display_set_vcom \/ Display_get_reg \/ Display_set_reg_mode
    \/ Display_set_reg_color \/ Display_set_reg_pitch \/ Display_take
    \/ Display_for \/ Display_set_memory \/ Display_display_image
    \/ Display_restore \/ Display_clear

Next == MainThread \/ video_task \/ panel_task \/ BatchPlayer

Spec == Init /\ [][Next]_vars

----------------------------------------------------------------------------
(* src/usb.rs: the SCSI-over-USB transport.  Each session is a thread that  *)
(* owns one ScsiOverUsbConnection; TAG is shared by all of them.            *)
(* A 32-bit value is kept as <<high, low>>, two 16-bit halves.              *)

U32Max == <<Pow2(16) - 1, Pow2(16) - 1>>

\* a + 1 on u32, wrapping
WrappingInc(t) ==
    IF t[2] + 1 < Pow2(16) THEN <<t[1], t[2] + 1>>
    ELSE <<(t[1] + 1) % Pow2(16), 0>>

\* a < b on u32
U32Less(a, b) == a[1] < b[1] \/ (a[1] = b[1] /\ a[2] < b[2])

\* an update of TAG that is lost
fetch_add_lost(t) == t

\* TAG.fetch_add(1, SeqCst): the new value of TAG; the caller gets the old one
fetch_add(t) == WrappingInc(t)

Kinds == {"read_command", "write_command", "write_command_raw"}

\* bytes of the data phase: size_of::<T>() of a register value, the encoded
\* DisplayArea, the payload of a register write or of set_vcom
\* the sizes a command is called with, as <<encoded value, extra data>>:
\* read_command reads a u32 (4 bytes); write_command sends a DisplayArea
\* (28 bytes) with or without extra data; write_command_raw sends data only
Lengths(kind) ==
    IF kind = "read_command" THEN {<<4, 0>>}
    ELSE IF kind = "write_command" THEN {<<28, 0>>, <<28, 4>>}
    ELSE {<<0, 4>>}

\* the length of the buffer of the data phase: vec![0; size_of::<T>()] in
\* read_command, value_data followed by data in write_command, data in
\* write_command_raw
bulk_data_len(kind, args) ==
    IF kind = "read_command" THEN args[1]
    ELSE IF kind = "write_command" THEN args[1] + args[2]
    ELSE args[2]

DirectionOf(kind) == IF kind = "read_command" THEN "IN" ELSE "OUT"

\* a wrapper whose direction flag is always host to device
get_command_block_wrapper_flags_out(tag, data_transfer_length, direction) ==
    [signature |-> <<85, 83, 66, 67>>,
     tag |-> tag,
     data_transfer_length |-> data_transfer_length,
     flags |-> 0,
     logical_unit_number |-> 0,
     command_length |-> 16]

\* the wrapper built for a command with this tag
get_command_block_wrapper(tag, data_transfer_length, direction) ==
    [signature |-> <<85, 83, 66, 67>>,
     tag |-> tag,
     data_transfer_length |-> data_transfer_length,
     flags |-> IF direction = "IN" THEN 128 ELSE 0,
     logical_unit_number |-> 0,
     command_length |-> 16]

Results == {"Ok", "Pipe", "Timeout"}

\* the Command Wrapper is 31 bytes long, the Status Wrapper 13
CBW_LEN == 31
CSW_LEN == 13

\* one call of the transport: the operation, the endpoint, the phase, the
\* length of the buffer and the result
Event(op, ep, what, r, bytes) ==
    [op |-> op, ep |-> ep, what |-> what, r |-> r, bytes |-> bytes]

\* the Status Wrappers the controller may answer to this Command Wrapper:
\* a conforming controller echoes the tag and reports success; otherwise
\* any status code, any residue, the tag echoed or not
StatusWrappers(cbw) ==
    IF controller = "conforming"
    THEN {[signature |-> <<85, 83, 66, 83>>, tag |-> cbw.tag,
           data_residue |-> 0, status |-> 0]}
    ELSE [signature : {<<85, 83, 66, 83>>},
          tag : {cbw.tag, WrappingInc(cbw.tag)},
          data_residue : {0, 1},
          status : {0, 1}]

\* a handshake that reports a failed command as an error
status_result_checked(csw) == IF csw.status = 0 THEN "Ok" ELSE "Other"

\* Ok(_size) => return Ok(deserialized Status Wrapper); the caller drops it
status_result(csw) == "Ok"

UsbRest == <<cfgVars, devVars, mainVars, videoVars, chanVars, panelVars, batchVars,
             calcVars>>

\* the function returns to its caller
Returns(s, ev, r) ==
    conn' = [conn EXCEPT ![s].pc = "idle", ![s].result = r,
                         ![s].trace = Append(@, ev)]

Goes(s, ev, pc) ==
    conn' = [conn EXCEPT ![s].pc = pc, ![s].trace = Append(@, ev)]

\* read_command, write_command or write_command_raw is called and builds
\* its Command Wrapper
Usb_command(s) ==
    /\ conn[s].pc = "idle"
    /\ conn[s].issued < MaxCommands
    /\ \E kind \in Kinds : \E args \in Lengths(kind) :
          LET length == bulk_data_len(kind, args)
          IN  conn' = [conn EXCEPT ![s] =
                     [pc |-> "write_cbw", kind |-> kind, args |-> args,
                      bulk |-> length,
                      cbw |-> get_command_block_wrapper(TAG, length, DirectionOf(kind)),
                      trace |-> <<>>, result |-> "none", csw |-> NoCsw,
                      issued |-> conn[s].issued + 1]]
    /\ TAG' = fetch_add(TAG)
    /\ wraps' = IF TAG = U32Max THEN wraps + 1 ELSE wraps
    /\ tagLog' = Append(tagLog, [tag |-> TAG, epoch |-> wraps, by |-> s])
    /\ UNCHANGED UsbRest

\* a command that goes on to its data phase whatever the write returned
Usb_write_cbw_ignores_error(s) ==
    /\ conn[s].pc = "write_cbw"
    /\ \E r \in Results :
          LET ev == Event("write_bulk", "OUT", "cbw", r, CBW_LEN)
          IN  Goes(s, ev, "data")
    /\ UNCHANGED <<TAG, wraps, tagLog, UsbRest>>

\* write_bulk(endpoint_out, cbw_data)?
Usb_write_cbw(s) ==
    /\ conn[s].pc = "write_cbw"
    /\ \E r \in Results :
          LET ev == Event("write_bulk", "OUT", "cbw", r, CBW_LEN)
          IN  IF r = "Ok" THEN Goes(s, ev, "data") ELSE Returns(s, ev, r)
    /\ UNCHANGED <<TAG, wraps, tagLog, UsbRest>>

\* the data phase: read_bulk(endpoint_in)? or write_bulk(endpoint_out)?
Usb_data(s) ==
    /\ conn[s].pc = "data"
    /\ \E r \in Results :
          LET ev == IF conn[s].kind = "read_command"
                    THEN Event("read_bulk", "IN", "data", r, conn[s].bulk)
                    ELSE Event("write_bulk", "OUT", "data", r, conn[s].bulk)
          IN  IF r = "Ok" THEN Goes(s, ev, "status") ELSE Returns(s, ev, r)
    /\ UNCHANGED <<TAG, wraps, tagLog, UsbRest>>

Stalls(t) == Cardinality({i \in 1..Len(t) : t[i].what = "csw" /\ t[i].r = "Pipe"})

\* a status handshake that retries after a stall without clearing the halt
Usb_status_no_clear_halt(s) ==
    /\ conn[s].pc = "status"
    /\ \E r \in Results :
          LET ev == Event("read_bulk", "IN", "csw", r, CSW_LEN)
          IN  /\ r = "Pipe" => Stalls(conn[s].trace) < MaxStalls
              /\ IF r = "Pipe" THEN Goes(s, ev, "status")
                 ELSE Returns(s, ev, r)
    /\ UNCHANGED <<TAG, wraps, tagLog, UsbRest>>

\* send_status_block_wrapper: one read of the 13 bytes
Usb_status(s) ==
    /\ conn[s].pc = "status"
    /\ \E r \in Results :
          LET ev == Event("read_bulk", "IN", "csw", r, CSW_LEN)
          IN  /\ r = "Pipe" => Stalls(conn[s].trace) < MaxStalls
              /\ IF r = "Pipe" THEN Goes(s, ev, "clear_halt")
                 ELSE IF r = "Ok"
                 THEN \E csw \in StatusWrappers(conn[s].cbw) :
                         conn' = [conn EXCEPT ![s].pc = "idle",
                                              ![s].result = status_result(csw),
                                              ![s].csw = csw,
                                              ![s].trace = Append(@, ev)]
                 ELSE Returns(s, ev, r)
    /\ UNCHANGED <<TAG, wraps, tagLog, UsbRest>>

\* clear_halt(endpoint_in).unwrap(); continue
Usb_clear_halt(s) ==
    /\ conn[s].pc = "clear_halt"
    /\ \E r \in {"Ok", "Timeout"} :
          LET ev == Event("clear_halt", "IN", "halt", r, 0)
          IN  IF r = "Ok" THEN Goes(s, ev, "status") ELSE Goes(s, ev, "panicked")
    /\ UNCHANGED <<TAG, wraps, tagLog, UsbRest>>

\* a process that has issued 2^32 - 3 commands before
TagsNearWrap == <<Pow2(16) - 1, Pow2(16) - 2>>

InitUsb ==
    /\ prog = "usb"
    /\ opt = [take |-> 1, ghost |-> 1, width |-> 1856, height |-> 1392,
              vcom |-> 0 - 1580000]
    /\ src = [nframes |-> 0, delay |-> 0, other |-> 0, width |-> 0, height |-> 0,
              bad |-> NoFrame]
    /\ regs0 = [a \in Registers |-> 0]
    /\ InitRun
    /\ TAG \in {TAG_INIT, TagsNearWrap}
    /\ wraps = 0
    /\ tagLog = <<>>
    /\ conn = [s \in Sessions |-> IdleConn]
    /\ controller = "conforming"
    /\ calc = NoCalc

NextUsb ==
    \E s \in Sessions :
        \/ Usb_command(s) \/ Usb_write_cbw(s) \/ Usb_data(s)
        \/ Usb_status(s) \/ Usb_clear_halt(s)

SpecUsb == InitUsb /\ [][NextUsb]_vars

\* one connection, a controller that may answer any Status Wrapper
InitCommand ==
    /\ prog = "usb"
    /\ opt = [take |-> 1, ghost |-> 1, width |-> 1856, height |-> 1392,
              vcom |-> 0 - 1580000]
    /\ src = [nframes |-> 0, delay |-> 0, other |-> 0, width |-> 0, height |-> 0,
              bad |-> NoFrame]
    /\ regs0 = [a \in Registers |-> 0]
    /\ InitRun
    /\ TAG \in {TAG_INIT, TagsNearWrap}
    /\ wraps = 0
    /\ tagLog = <<>>
    /\ conn = [s \in Sessions |-> IdleConn]
    /\ controller = "arbitrary"
    /\ calc = NoCalc

NextCommand ==
    \/ Usb_command("s1") \/ Usb_write_cbw("s1") \/ Usb_data("s1")
    \/ Usb_status("s1") \/ Usb_clear_halt("s1")

SpecCommand == InitCommand /\ [][NextCommand]_vars

\* the streaming player alone, on a controller whose registers are all 0
InitStream ==
    /\ Init
    /\ prog = "main"
    /\ regs0 = [a \in Registers |-> 0]
    /\ opt.vcom = 0 - 1580000
    /\ opt.width = 1856
    /\ opt.ghost = MaxGhost

NextStream == MainThread \/ video_task \/ panel_task

\* select! completes on the join handle of a task that has ended
JoinCompletes == Main_select /\ selected' /= "ctrl_c"

\* the scheduler runs both blocking tasks, and main() goes on after select!
FairSpec ==
    /\ InitStream
    /\ [][NextStream]_vars
    /\ WF_vars(video_task)
    /\ WF_vars(panel_task)
    /\ WF_vars(Main_send)
    /\ WF_vars(JoinCompletes)

----------------------------------------------------------------------------
(* Properties. *)

ClearIssued == \E i \in 1..Len(devLog) : devLog[i].op = "clear_display"

\* the frames a player with subsampling factor n shows: 0, n, 2n, ...
IsSubsampled(d, n) == \A i \in 1..Len(d) : d[i].frame = (i - 1) * n

\* the mode claimed for the displayed frame with 0-based display index i
EveryKth(i, k) == IF i % k = 0 THEN "GL16" ELSE "A2"

\* C1: when the consumer of main.rs has left its loop because the finished
\* flag was set, in a run without cancellation and without device errors,
\* no frame is left in the queue.
C1_DrainComplete ==
    (prog = "main" /\ stopReason = "finished" /\ selected /= "ctrl_c" /\ ~devFailed)
        => queue = <<>>

\* C2: once main.rs has taken the Ctrl-C branch of select!, and unless a
\* device command fails, the consumer eventually has issued clear_display and
\* stopped, the producer has stopped, and main() has returned Ok.
C2_Cancellation ==
    (prog = "main" /\ selected = "ctrl_c")
        ~> (devFailed \/ (/\ ppc = "done" /\ ClearIssued
                          /\ VideoEnded
                          /\ mpc = "done" /\ outcome = "ok"))

C2_Witness ==
    /\ prog = "main" /\ selected = "ctrl_c" /\ ~devFailed
    /\ ppc = "done" /\ stopReason = "shutdown" /\ ClearIssued
    /\ vpc = "done" /\ cancelled
    /\ Len(displayed) >= 1
    /\ mpc = "done" /\ outcome = "ok"

\* C3: in both players, at every point the frames displayed so far are the
\* source frames 0, N, 2N, ... in that order, N being the subsampling factor.
C3_FrameOrder ==
    opt.take >= 1 =>
        /\ IsSubsampled(displayed, opt.take)
        /\ \A i \in 1..Len(displayed) : displayed[i].frame < src.nframes

C3_Witness ==
    /\ prog = "main" /\ opt.take = 2
    /\ Len(displayed) = 2 /\ displayed[2].frame = 2

\* C4: when display.rs reaches clear_display in a run without Ctrl-C and
\* without device errors, it has displayed every frame of the frame set whose
\* index is a multiple of N, once each and in order.
C4_BatchComplete ==
    (/\ prog = "display" /\ mpc \in {"clear", "done"} /\ outcome # "error"
     /\ running /\ ~devFailed /\ opt.take >= 1 /\ opt.ghost >= 1)
        => /\ Len(displayed) = (src.nframes + opt.take - 1) \div opt.take
           /\ IsSubsampled(displayed, opt.take)

\* C5: in main.rs with ghost interval K > 0 the frame with 0-based display
\* index i is shown with GL16 exactly when i mod K = 0, else with A2.
C5_StreamGhost ==
    (prog = "main" /\ opt.ghost > 0) =>
        \A i \in 1..Len(displayed) :
            displayed[i].mode = EveryKth(i - 1, opt.ghost)

C5_Witness ==
    /\ prog = "main" /\ opt.ghost = 2
    /\ Len(displayed) = 3
    /\ displayed[2].mode = "A2" /\ displayed[3].mode = "GL16"

\* C6: in display.rs with ghost interval K > 0 the frame with 0-based display
\* index i is shown with GL16 exactly when i mod K = 0, else with A2.
C6_BatchGhost ==
    (prog = "display" /\ opt.ghost > 0) =>
        \A i \in 1..Len(displayed) :
            displayed[i].mode = EveryKth(i - 1, opt.ghost)

IsStall(e) == e.what = "csw" /\ e.r = "Pipe"

\* C7: in the status handshake of every command, each stall of the status
\* read is followed by exactly one clear_halt on the IN endpoint, each
\* clear_halt follows a stall, a clear_halt that returns is followed by
\* another status read, the Command Wrapper and the data phase are issued
\* once, and a status read that succeeds makes the command return Ok.
C7_StallRecovery ==
    \A s \in Sessions :
        LET t == conn[s].trace
            n == Len(t)
        IN  /\ \A i \in 1..n :
                  IsStall(t[i]) =>
                      IF i < n
                      THEN t[i + 1].op = "clear_halt" /\ t[i + 1].ep = "IN"
                      ELSE conn[s].pc = "clear_halt"
            /\ \A i \in 1..n :
                  t[i].op = "clear_halt" => i > 1 /\ IsStall(t[i - 1])
            /\ \A i \in 1..n :
                  (t[i].op = "clear_halt" /\ t[i].r = "Ok") =>
                      IF i < n
                      THEN t[i + 1] = Event("read_bulk", "IN", "csw", t[i + 1].r, CSW_LEN)
                      ELSE conn[s].pc = "status"
            /\ Stalls(t) > 0 =>
                  /\ Cardinality({i \in 1..n : t[i].what = "cbw"}) = 1
                  /\ Cardinality({i \in 1..n : t[i].what = "data"}) = 1
            /\ (n > 0 /\ t[n].what = "csw" /\ t[n].r = "Ok") =>
                  conn[s].pc = "idle" /\ conn[s].result = "Ok"

C7_Witness ==
    \E s \in Sessions :
        /\ Stalls(conn[s].trace) = 2
        /\ conn[s].pc = "idle" /\ conn[s].result = "Ok"

\* C8: the tags handed out go up by one from one call of
\* get_command_block_wrapper to the next, whichever session calls; no tag is
\* handed out twice, the tags are strictly increasing in the order of the
\* calls until the counter wraps, and each wrapper carries the tag it took.
C8_TagSequence ==
    /\ \A i \in 1..(Len(tagLog) - 1) :
          tagLog[i + 1].tag = WrappingInc(tagLog[i].tag)
    /\ \A i, j \in 1..Len(tagLog) :
          i < j => /\ tagLog[i].tag /= tagLog[j].tag
                   /\ tagLog[i].epoch = tagLog[j].epoch
                         => U32Less(tagLog[i].tag, tagLog[j].tag)
    /\ \A s \in Sessions :
          conn[s].issued > 0 =>
              \E i \in 1..Len(tagLog) :
                  /\ tagLog[i].by = s /\ tagLog[i].tag = conn[s].cbw.tag
                  /\ \A j \in (i + 1)..Len(tagLog) : tagLog[j].by /= s

C8_Witness ==
    /\ Len(tagLog) = 4
    /\ wraps = 1 /\ tagLog[3].epoch = 1
    /\ tagLog[1].by /= tagLog[2].by /\ tagLog[2].by /= tagLog[3].by

\* C9: when a device command has failed on the consumer of main.rs and
\* main() ends after it saw panel_task end, the run ends with an error outcome.
C9_ConsumerFailureIsError ==
    (prog = "main" /\ ppc = "panicked" /\ selected = "panel_task" /\ mpc = "done")
        => outcome = "error"

\* C10: when a run of either player ends without a device error, every
\* controller register holds the value it had before the setup.
C10_RegisterRestore ==
    (/\ mpc = "done" /\ outcome = "ok" /\ ~devFailed
     /\ prog = "main" => (PanelEnded /\ VideoEnded))
        => regs = regs0

----------------------------------------------------------------------------
(* Validation of the command line and of the frame set.                    *)

VcomAccepted == opt.vcom < 0 /\ opt.vcom > 0 - 5000000

\* C11: a set-VCOM command is sent only for a negative value of a magnitude
\* strictly between 0 and 5000 millivolts, in both players; for -1.58 its
\* command block carries 1580 in bytes 7..8, big-endian, and 1 in byte 9.
C11_VcomPrecondition ==
    \A i \in 1..Len(devLog) :
        devLog[i].op = "set_vcom" =>
            /\ VcomAccepted
            /\ opt.vcom = 0 - 1580000 =>
                   /\ Byte(devLog[i].arg.command, 7) * 256
                          + Byte(devLog[i].arg.command, 8) = 1580
                   /\ Byte(devLog[i].arg.command, 9) = 1

\* C12: in both players a run with take = 0, ghost = 0 or a VCOM outside
\* the accepted range issues no device command at all.
C12_ValidationBeforeIO ==
    (opt.take = 0 \/ opt.ghost = 0 \/ ~VcomAccepted) => devLog = <<>>

\* C13: every set_memory of the players sends at most 65535 bytes, and the
\* length in bytes 7..8 of its command block equals the number of bytes
\* sent and the data_transfer_length of its Command Wrapper.
C13_FastWriteLength ==
    \A i \in 1..Len(devLog) :
        devLog[i].op = "set_memory" =>
            LET a == devLog[i].arg
            IN  /\ a.payload <= 65535
                /\ a.data_len_8[1] * 256 + a.data_len_8[2] = a.payload
                /\ a.data_transfer_length = a.payload

\* C14: display.rs issues its first set_memory only when every frame of
\* the frame set it read has width * height / 8 bytes.
C14_FrameSetShape ==
    (prog = "display" /\ \E i \in 1..Len(devLog) : devLog[i].op = "set_memory")
        => \A k \in 0..(src.nframes - 1) : FrameLen(k) = image_size

----------------------------------------------------------------------------
(* The cached system information and the ownership of the device.          *)

\* C19: get-system-info is issued once, by connect, and from then on
\* API.system_info is the snapshot connect read, whatever commands
\* followed and whatever the controller would report now.
C19_SystemInfoCache ==
    /\ \A i \in 1..Len(devLog) : devLog[i].op = "get_system_info" => i = 1
    /\ system_info \in {NoInfo, PanelInfo}
    /\ Len(devLog) > 1 => system_info = PanelInfo

\* a picture was displayed, so that the controller no longer reports what
\* it reported to connect
C19_Witness ==
    /\ Len(displayed) > 0
    /\ devFailed
    /\ devInfo # PanelInfo
    /\ system_info = PanelInfo

\* C20: in main.rs, once video_task and panel_task are spawned, a step
\* issues a device command only if it is a step of panel_task, and it
\* issues exactly one.
C20_ExclusiveAccess ==
    [][(prog = "main" /\ vpc # "idle" /\ devLog' # devLog) =>
          /\ Len(devLog') = Len(devLog) + 1
          /\ SubSeq(devLog', 1, Len(devLog)) = devLog
          /\ devLog'[Len(devLog')].by = "panel"
          /\ ppc' # ppc
          /\ UNCHANGED <<mainVars, videoVars>>]_vars

\* panel_task issued a command after the main thread had gone on to
\* shutdown_tx.send and while video_task was still running
C20_Witness ==
    /\ prog = "main"
    /\ mpc = "done"
    /\ vpc \notin {"idle", "done", "panicked"}
    /\ Len(devLog) > 6
    /\ devLog[Len(devLog)].by = "panel"
    /\ devLog[Len(devLog)].op = "clear_display"

----------------------------------------------------------------------------
(* Pure functions: the threshold matrix and the dither-and-pack loop of    *)
(* main.rs, and the wrapper codec of usb.rs, each applied to inputs drawn  *)
(* from bounded sets.                                                      *)

power_of_two == 8
side == Pow2(power_of_two)
num_elements == side * side

\* (v >> p) & 1
Bit(v, p) == (v \div Pow2(p)) % 2

RECURSIVE BitXor(_, _, _)
\* x ^ y on bits p..0
BitXor(x, y, p) ==
    IF p < 0 THEN 0
    ELSE ((Bit(x, p) + Bit(y, p)) % 2) * Pow2(p) + BitXor(x, y, p - 1)

RECURSIVE Interleave(_, _, _)
\* the loop `for p in (0..power_of_two).rev()` from p down to 0: every
\* pass sets two bits of v that no other pass sets
Interleave(xc, yc, p) ==
    IF p < 0 THEN 0
    ELSE LET bit_idx == 2 * (power_of_two - p - 1)
         IN  Bit(yc, p) * Pow2(bit_idx) + Bit(xc, p) * Pow2(bit_idx + 1)
                 + Interleave(xc, yc, p - 1)

\* the element pushed at (x, y): (v as f32 * norm_factor) as u8, where
\* norm_factor = 255 / 65536 and v * 255 < 2^24 are exact in f32
MatrixElement(x, y) ==
    (Interleave(BitXor(x, y, power_of_two - 1), y, power_of_two - 1) * 255)
        \div num_elements

\* element idx of the Vec that ThresholdMatrix::new() fills: x is the outer
\* loop and y the inner one, so the element pushed at (x, y) has index
\* x * side + y
matrix(idx) == MatrixElement(idx \div side, idx % side)

\* the fields of ThresholdMatrix::new(); len is matrix.len()
threshold_matrix == [nx |-> side, ny |-> side, len |-> num_elements]

\* a look-up whose rows wrap around one row early
look_up_index_short_period(x, y) ==
    LET j == x % threshold_matrix.nx
        i == y % (threshold_matrix.ny - 1)
    IN  i * threshold_matrix.nx + j

\* idx of ThresholdMatrix::look_up
look_up_index(x, y) ==
    LET j == x % threshold_matrix.nx
        i == y % threshold_matrix.ny
    IN  i * threshold_matrix.nx + j

\* self.matrix[idx]
look_up(x, y) == matrix(look_up_index(x, y))

\* pixel coordinates, up to the largest x with x + side in the integers
LookupCoords == {0, 1, 255, 256, 257, 1855, 65535, 65536, 2147483391}

LookupInputs ==
    { [fn |-> "look_up", pc |-> "call", x |-> x, y |-> y] :
        x \in LookupCoords, y \in LookupCoords }

\* look_up(x, y), look_up(x + side, y) and look_up(x, y + side)
LookUp ==
    /\ calc.fn = "look_up" /\ calc.pc = "call"
    /\ calc' = [fn |-> "look_up", pc |-> "done", x |-> calc.x, y |-> calc.y,
                idx |-> <<look_up_index(calc.x, calc.y),
                          look_up_index(calc.x + side, calc.y),
                          look_up_index(calc.x, calc.y + side)>>,
                value |-> <<look_up(calc.x, calc.y),
                            look_up(calc.x + side, calc.y),
                            look_up(calc.x, calc.y + side)>>]
    /\ UNCHANGED <<cfgVars, devVars, mainVars, videoVars, chanVars, panelVars,
                   batchVars, usbVars>>

\* width and height of the frames that are dithered
DitherDims == {<<8, 1>>, <<4, 2>>, <<2, 4>>, <<3, 3>>}

\* the two samples a grid is made of
SamplePairs == {{0, 255}, {127, 128}}

\* the grids of width * height samples
Grids(width, height) == UNION { [1..(width * height) -> p] : p \in SamplePairs }

\* data_1bpp starts as vec![0; (width * height / 8)]
DitherInputs ==
    UNION { { [fn |-> "dither", pc |-> "loop", width |-> d[1], height |-> d[2],
               data_8bpp |-> g,
               data_1bpp |-> [k \in 1..((d[1] * d[2]) \div 8) |-> 0],
               x |-> 0, y |-> 0] : g \in Grids(d[1], d[2]) } : d \in DitherDims }

\* a packing that fills each byte from its most significant bit
bit_of_pixel_msb_first(index_8bpp) == 7 - (index_8bpp % 8)

\* 2_u8.pow(index_8bpp % 8): the bit of the pixel in its byte
bit_of_pixel(index_8bpp) == index_8bpp % 8

\* one pass of the inner loop `for x in 0..width`; indexing data_1bpp
\* outside its length panics
Dither_pixel ==
    /\ calc.fn = "dither" /\ calc.pc = "loop"
    /\ LET index_8bpp == calc.y * calc.width + calc.x
           index_1bpp == index_8bpp \div 8
           white == calc.data_8bpp[index_8bpp + 1] > look_up(calc.x, calc.y)
           last_x == calc.x = calc.width - 1
           last_y == calc.y = calc.height - 1
       IN  IF white /\ index_1bpp >= Len(calc.data_1bpp)
           THEN calc' = [calc EXCEPT !.pc = "panicked"]
           ELSE calc' =
                  [calc EXCEPT
                     !.data_1bpp = IF white
                                   THEN [@ EXCEPT ![index_1bpp + 1] =
                                           SetBit(@, bit_of_pixel(index_8bpp))]
                                   ELSE @,
                     !.x = IF last_x THEN 0 ELSE @ + 1,
                     !.y = IF last_x THEN @ + 1 ELSE @,
                     !.pc = IF last_x /\ last_y THEN "done" ELSE "loop"]
    /\ UNCHANGED <<cfgVars, devVars, mainVars, videoVars, chanVars, panelVars,
                   batchVars, usbVars>>

\* u32 values of wrapper fields, as <<high, low>>
CodecU32s == {<<0, 0>>, <<0, 1>>, <<4, 60800>>, <<258, 772>>, U32Max}

\* GET_SYS_CMD and the command block of set_vcom(-1.58)
CodecCommands ==
    { <<254, 0, 56, 57, 53, 49, 128, 0, 1, 0, 2, 0, 0, 0, 0, 0>>,
      set_vcom_command(0 - 1580000) }

CommandBlockWrapper ==
    [kind : {"cbw"}, signature : {<<85, 83, 66, 67>>}, tag : CodecU32s,
     data_transfer_length : CodecU32s, flags : {0, 128},
     logical_unit_number : {0}, command_length : {16},
     command_data : CodecCommands]

CommandStatusWrapper ==
    [kind : {"csw"}, signature : {<<85, 83, 66, 83>>}, tag : CodecU32s,
     data_residue : CodecU32s, status : {0, 1, 2}]

CodecInputs ==
    { [fn |-> "codec", pc |-> "serialize", wrapper |-> w] :
        w \in CommandBlockWrapper \cup CommandStatusWrapper }

\* a u32 written with fixint encoding, little-endian
serialize_u32(v) == <<v[2] % 256, v[2] \div 256, v[1] % 256, v[1] \div 256>>

\* a reader that takes the four bytes in big-endian order
deserialize_u32_big_endian(b) == <<b[1] * 256 + b[2], b[3] * 256 + b[4]>>

\* a u32 read with fixint encoding, little-endian
deserialize_u32(b) == <<b[3] + 256 * b[4], b[1] + 256 * b[2]>>

\* the fields in the order of the struct; arrays of u8 carry no length
serialize(w) ==
    IF w.kind = "cbw"
    THEN w.signature \o serialize_u32(w.tag) \o serialize_u32(w.data_transfer_length)
             \o <<w.flags, w.logical_unit_number, w.command_length>>
             \o w.command_data
    ELSE w.signature \o serialize_u32(w.tag) \o serialize_u32(w.data_residue)
             \o <<w.status>>

deserialize(kind, b) ==
    IF kind = "cbw"
    THEN [kind |-> "cbw",
          signature |-> SubSeq(b, 1, 4),
          tag |-> deserialize_u32(SubSeq(b, 5, 8)),
          data_transfer_length |-> deserialize_u32(SubSeq(b, 9, 12)),
          flags |-> b[13],
          logical_unit_number |-> b[14],
          command_length |-> b[15],
          command_data |-> SubSeq(b, 16, 31)]
    ELSE [kind |-> "csw",
          signature |-> SubSeq(b, 1, 4),
          tag |-> deserialize_u32(SubSeq(b, 5, 8)),
          data_residue |-> deserialize_u32(SubSeq(b, 9, 12)),
          status |-> b[13]]

Codec_serialize ==
    /\ calc.fn = "codec" /\ calc.pc = "serialize"
    /\ calc' = [fn |-> "codec", pc |-> "deserialize", wrapper |-> calc.wrapper,
                bytes |-> serialize(calc.wrapper)]
    /\ UNCHANGED <<cfgVars, devVars, mainVars, videoVars, chanVars, panelVars,
                   batchVars, usbVars>>

Codec_deserialize ==
    /\ calc.fn = "codec" /\ calc.pc = "deserialize"
    /\ calc' = [fn |-> "codec", pc |-> "done", wrapper |-> calc.wrapper,
                bytes |-> calc.bytes,
                decoded |-> deserialize(calc.wrapper.kind, calc.bytes)]
    /\ UNCHANGED <<cfgVars, devVars, mainVars, videoVars, chanVars, panelVars,
                   batchVars, usbVars>>

\* nothing but the pure function runs
InitIdle ==
    /\ prog = "calc"
    /\ opt = [take |-> 1, ghost |-> 1, width |-> 1856, height |-> 1392,
              vcom |-> 0 - 1580000]
    /\ src = [nframes |-> 0, delay |-> 0, other |-> 0, width |-> 0, height |-> 0,
              bad |-> NoFrame]
    /\ regs0 = [a \in Registers |-> 0]
    /\ InitRun
    /\ TAG = TAG_INIT
    /\ wraps = 0
    /\ tagLog = <<>>
    /\ conn = [s \in Sessions |-> IdleConn]
    /\ controller = "conforming"

InitPure ==
    /\ InitIdle
    /\ calc \in LookupInputs \cup DitherInputs \cup CodecInputs

NextPure == LookUp \/ Dither_pixel \/ Codec_serialize \/ Codec_deserialize

SpecPure == InitPure /\ [][NextPure]_vars

C16_Periodicity ==
    (calc.fn = "look_up" /\ calc.pc = "done") =>
        /\ \A k \in 1..3 : calc.idx[k] \in 0..(threshold_matrix.len - 1)
        /\ calc.value[1] = calc.value[2]
        /\ calc.value[1] = calc.value[3]
        /\ calc.value[1] = look_up(calc.x, calc.y)

\* a look-up beyond the first period in both coordinates
C16_Witness ==
    /\ calc.fn = "look_up" /\ calc.pc = "done"
    /\ calc.x = 2147483391 /\ calc.y = 257
    /\ calc.value[1] > 0

\* C17: a Command Wrapper is encoded in 31 bytes and a Status Wrapper in
\* 13 bytes, and decoding the bytes gives back every field.
C17_CodecRoundTrip ==
    calc.fn = "codec" =>
        /\ calc.pc # "serialize" =>
               Len(calc.bytes) = IF calc.wrapper.kind = "cbw" THEN 31 ELSE 13
        /\ calc.pc = "done" => calc.decoded = calc.wrapper

\* a Command Wrapper whose tag has four different bytes went through
C17_Witness ==
    /\ calc.fn = "codec" /\ calc.pc = "done"
    /\ calc.wrapper.kind = "cbw"
    /\ calc.wrapper.tag = <<258, 772>>
    /\ calc.wrapper.data_transfer_length = <<4, 60800>>
    /\ calc.bytes[5] = 4 /\ calc.bytes[8] = 1

----------------------------------------------------------------------------
(* The streaming pipeline and cancellation.                                *)

\* C21: in main.rs the consumer decides to stop for the shutdown message
\* only when the frame queue is empty.
C21_PollOrder ==
    [][(prog = "main" /\ stopReason # "shutdown" /\ stopReason' = "shutdown")
          => queue = <<>>]_vars

\* C22: once main.rs has sent the shutdown message, the consumer pops (and
\* so starts to write and display) at most one further frame and the
\* producer takes at most one further packet from the source, whatever the
\* number of frames waiting in the queue.
C22_BoundedReaction ==
    /\ frames_after_send <= 1
    /\ packets_after_send <= 1

\* Ctrl-C with three frames queued: the consumer shows one more, the producer
\* takes one more packet, both stop and two frames stay in the queue
C22_Witness ==
    /\ selected = "ctrl_c"
    /\ frames_after_send = 1 /\ packets_after_send = 1
    /\ ppc = "done" /\ vpc = "done"
    /\ stopReason = "shutdown" /\ cancelled
    /\ Len(queue) >= 2

\* C23: video_finished is set only when the source ended naturally and
\* every frame, the ones flushed from the decoder at the end of the input
\* included, has been pushed: from then on the producer pushes nothing.  A
\* producer that saw the shutdown message in its main loop pushes no
\* further frame, leaves the frames held by the decoder there, and never
\* sets video_finished.
C23_ProducerEndStates ==
    /\ [](video_finished =>
              /\ ~cancelled
              /\ vpc \in {"spin", "done"}
              /\ packetsLeft = 0 /\ otherLeft = 0 /\ decBuf = 0)
    /\ [](cancelled =>
              /\ ~video_finished
              /\ vpc \in {"send_eof", "done"})
    /\ [][(video_finished \/ cancelled) =>
              /\ frame_counter' = frame_counter
              /\ decBuf' = decBuf
              /\ Len(queue') <= Len(queue)
              /\ video_finished' = video_finished]_vars

\* a cancelled producer has ended while the decoder still holds a frame
C23_Witness ==
    /\ cancelled /\ vpc = "done"
    /\ decBuf > 0
    /\ ~video_finished
    /\ frame_counter > 0

----------------------------------------------------------------------------
(* The command transport, one connection.                                  *)

\* C24: every command writes its 31-byte Command Wrapper once, on the OUT
\* endpoint, as its first transfer, then makes one data transfer (a read on
\* IN for read_command, a write on OUT for write_command and
\* write_command_raw), and everything after that belongs to the status
\* handshake; a command that returned Ok went through the three phases.  The
\* wrapper's flags are 0x80 for read_command and 0x00 otherwise, and its
\* data_transfer_length is the length of the data phase: the size of the
\* value read, the encoded value plus the extra data, or the data alone.
C24_CommandPhases ==
    \A s \in Sessions :
        LET t == conn[s].trace
            n == Len(t)
            kind == conn[s].kind
            cbw == conn[s].cbw
        IN  kind /= "none" =>
              /\ n >= 1 => t[1] = Event("write_bulk", "OUT", "cbw", t[1].r, CBW_LEN)
              /\ n >= 2 =>
                    /\ t[1].r = "Ok"
                    /\ t[2].what = "data"
                    /\ t[2].op = (IF kind = "read_command" THEN "read_bulk" ELSE "write_bulk")
                    /\ t[2].ep = (IF kind = "read_command" THEN "IN" ELSE "OUT")
                    /\ t[2].bytes = cbw.data_transfer_length
              /\ \A i \in 3..n :
                    /\ t[2].r = "Ok"
                    /\ t[i].what \in {"csw", "halt"} /\ t[i].ep = "IN"
              /\ conn[s].result = "Ok" => (n >= 3 /\ t[n].what = "csw")
              /\ cbw.flags = (IF kind = "read_command" THEN 128 ELSE 0)
              /\ kind = "read_command" => cbw.data_transfer_length = conn[s].args[1]
              /\ kind = "write_command" =>
                    cbw.data_transfer_length = conn[s].args[1] + conn[s].args[2]
              /\ kind = "write_command_raw" => cbw.data_transfer_length = conn[s].args[2]

\* a write_command of a 28-byte value with 4 bytes of extra data returned Ok
\* after a stall of the status read
C24_Witness ==
    /\ conn["s1"].kind = "write_command" /\ conn["s1"].args = <<28, 4>>
    /\ conn["s1"].cbw.data_transfer_length = 32
    /\ conn["s1"].result = "Ok"
    /\ Len(conn["s1"].trace) = 5

\* C25: a command whose status read succeeded has returned Ok, whatever
\* the Status Wrapper it received holds: a status code other than 0, a
\* residue other than 0 or a tag other than the one of the Command Wrapper
\* make no difference.
C25_StatusNotInterpreted ==
    \A s \in Sessions :
        LET t == conn[s].trace
            n == Len(t)
        IN  /\ (n > 0 /\ t[n].what = "csw" /\ t[n].r = "Ok") =>
                  /\ conn[s].csw /= NoCsw
                  /\ conn[s].pc = "idle"
                  /\ conn[s].result = "Ok"
            /\ conn[s].csw /= NoCsw =>
                  (n > 0 /\ t[n].what = "csw" /\ t[n].r = "Ok")

\* a command returned Ok on a Status Wrapper that reports a failure, a
\* residue and a foreign tag
C25_Witness ==
    /\ conn["s1"].csw /= NoCsw
    /\ conn["s1"].csw.status /= 0
    /\ conn["s1"].csw.data_residue /= 0
    /\ conn["s1"].csw.tag /= conn["s1"].cbw.tag
    /\ conn["s1"].result = "Ok"

\* the transport call failed, and not by a stall of the status read
IsFatal(ev) ==
    /\ ev.what \in {"cbw", "data", "csw"}
    /\ ev.r /= "Ok"
    /\ ~(ev.what = "csw" /\ ev.r = "Pipe")

\* C26: when the write of the Command Wrapper or the data transfer fails,
\* by a stall or otherwise, or the status read fails otherwise than by a
\* stall, that transfer is the last one of the command: the command has
\* returned that error, with no clear_halt, no retry and no later phase, and
\* its tag has been handed out once only.
C26_ErrorPropagation ==
    \A s \in Sessions :
        LET t == conn[s].trace
            n == Len(t)
        IN  \A i \in 1..n :
                IsFatal(t[i]) =>
                    /\ i = n
                    /\ conn[s].pc = "idle"
                    /\ conn[s].result = t[i].r
                    /\ \A j \in 1..(i - 1) : t[j].r = "Ok" \/ IsStall(t[j])
                    /\ Cardinality({j \in 1..Len(tagLog) :
                                       tagLog[j].tag = conn[s].cbw.tag}) = 1

\* the second command of the connection stalled in its data phase and
\* returned the stall
C26_Witness ==
    /\ conn["s1"].issued = 2 /\ Len(tagLog) = 2
    /\ Len(conn["s1"].trace) = 2
    /\ conn["s1"].trace[2].what = "data" /\ conn["s1"].trace[2].r = "Pipe"
    /\ conn["s1"].pc = "idle" /\ conn["s1"].result = "Pipe"

\* C27: no Command Wrapper carries the tag 0, however many commands were
\* issued before, also after the 32-bit counter has wrapped around.
C27_TagNonZero ==
    /\ \A i \in 1..Len(tagLog) : tagLog[i].tag /= <<0, 0>>
    /\ \A s \in Sessions : conn[s].kind /= "none" => conn[s].cbw.tag /= <<0, 0>>

----------------------------------------------------------------------------
(* The display area.                                                       *)

\* C28: every display_image command of either player has a width and a
\* height no greater than the panel's, x = (panel width - width) / 2 and
\* y = (panel height - height) / 2 computed without overflow, an area that
\* ends inside the panel, and wait_ready = 1.
C28_AreaOnPanel ==
    \A i \in 1..Len(devLog) :
        devLog[i].op = "display_image" =>
            LET a == devLog[i].arg
            IN  /\ a.width <= system_info.width
                /\ a.height <= system_info.height
                /\ a.x = (system_info.width - a.width) \div 2
                /\ a.y = (system_info.height - a.height) \div 2
                /\ a.x + a.width <= system_info.width
                /\ a.y + a.height <= system_info.height
                /\ a.wait_ready = 1

----------------------------------------------------------------------------
(* The end of a run.                                                       *)

\* the run of main.rs ended by itself: the consumer saw video_finished,
\* cleared the panel and stopped, main() then sent the shutdown message and
\* returned Ok, and the producer left its final loop
NaturalEnd ==
    /\ ppc = "done" /\ stopReason = "finished" /\ ClearIssued
    /\ selected = "panel_task" /\ mpc = "done" /\ outcome = "ok"
    /\ vpc = "done" /\ video_finished /\ ~cancelled
    /\ ~shutdownV

\* C29: under fair scheduling, once main.rs has spawned its two tasks,
\* unless Ctrl-C is pressed or a device command fails, the consumer clears
\* the panel and stops, main() sends the shutdown message after that and
\* returns, and the producer, polling in its final loop, receives the
\* message and stops: no task waits forever.  The message is sent once:
\* main() sends only when it leaves select!, and never returns there.
C29_NaturalCompletion ==
    /\ (prog = "main" /\ mpc = "select")
          ~> (selected = "ctrl_c" \/ devFailed \/ NaturalEnd)
    /\ [][ShutdownSent => ShutdownSent' /\ (shutdownV' => shutdownV)
                                        /\ (shutdownP' => shutdownP)]_vars
    /\ [](((shutdownV \/ shutdownP) /\ selected = "panel_task") => PanelEnded)

\* a video of at least two frames was played to its end and everything stopped
C29_Witness ==
    /\ NaturalEnd
    /\ ~devFailed
    /\ Len(displayed) >= 2
    /\ queue = <<>>

\* the clear_display commands issued so far
Clears == {i \in 1..Len(devLog) : devLog[i].op = "clear_display"}

\* clear_display was issued once, as the last device command, in INIT mode
\* over the whole panel from x = 0, y = 0
ClearedLast ==
    /\ Clears = {Len(devLog)}
    /\ devLog[Len(devLog)].arg =
          [address |-> 0, display_mode |-> "INIT", x |-> 0, y |-> 0,
           width |-> PanelInfo.width, height |-> PanelInfo.height, wait_ready |-> 1]

\* the process has nothing left to run
RunEnded ==
    /\ mpc = "done"
    /\ prog = "main" => (vpc = "idle" \/ (VideoEnded /\ PanelEnded))

\* C30 as stated: every run of either player that ends without a device
\* error has issued clear_display exactly once, as its last device command.
C30_ClearInEveryRun ==
    (prog \in {"main", "display"} /\ RunEnded /\ ~devFailed) => ClearedLast

\* the player went through its playing loop to its end: panel_task left its
\* loop and returned, display.rs returned Ok
Played ==
    \/ prog = "main" /\ ppc = "done"
    \/ prog = "display" /\ mpc = "done" /\ outcome = "ok"

\* C30: in every run of either player that is not stopped by a failed
\* assertion or a panic before the end of its playing loop, clear_display
\* (INIT mode, x = 0, y = 0, the whole panel) has been issued exactly once
\* and is the last device command, after Ctrl-C as well as at the natural
\* end; and in every run whatever, no device command follows a
\* clear_display.
C30_ClearLastAndSingle ==
    /\ Played => ClearedLast
    /\ Clears \subseteq {Len(devLog)}

\* Ctrl-C while a frame waits in the queue: panel_task has shown a frame,
\* cleared the panel and stopped
C30_Witness ==
    /\ prog = "main" /\ selected = "ctrl_c"
    /\ ppc = "done" /\ VideoEnded /\ mpc = "done"
    /\ Len(displayed) >= 1 /\ queue /= <<>>
    /\ ClearedLast

====
